---------------------------- MODULE Spec2Model ----------------------------
(***************************************************************************)
(* AI Fintech Weekly: the news aggregation / enrichment / digest pipeline  *)
(* of scripts/fetch_news.py and scripts/summarize.py.                      *)
(*                                                                         *)
(* Text is a sequence of one-character strings.  A JSON value that the     *)
(* code expects to be text but a provider may send as null is a record     *)
(* [t |-> "str", v |-> <<chars>>] or [t |-> "null", v |-> <<>>].           *)
(***************************************************************************)
EXTENDS Integers, Sequences, FiniteSets, TLC

VARIABLES
    d_pc,          \* deduplicate_news call: "call" | "done" | "raised"
    news_list,     \* deduplicate_news: its argument
    unique_news,   \* deduplicate_news: its return value
    now,           \* datetime.now(), in seconds
    a_pc,          \* one adapter call: "call" | "done"
    a_adapter,     \* the adapter called: "google" | "36kr" | "sspai"
    a_feed,        \* what the provider answers: [ok, entries]
    a_result,      \* the list the adapter returns
    f_pc,          \* fetch_all_news: "calls" | "done" | "raised"
    f_call,        \* fetch_all_news: the next adapter call, 1..9
    all_news,      \* fetch_all_news: the concatenation of the adapters' lists
    ranked,        \* fetch_all_news: all_news after the sort and the cap,
                   \*   before _published_ts is popped
    result,        \* fetch_all_news: the dataset returned
    p_pc,          \* response parsing: "call" | "done"
    response_text, \* response.choices[0].message.content, as tokens
    p_result,      \* response parsing: what the parse gives
    e_pc,          \* enhance_news_data: "call" | "returned" | "raised"
    news_data,     \* enhance_news_data: the dataset it is given and mutates
    e_aliased,     \* whether en_news / zh_news hold the objects of all_news
                   \*   (a dataset fresh from fetch_all_news) or copies
                   \*   (a dataset loaded from its JSON file)
    e_before,      \* the dataset as it was when enhance_news_data was called
    e_reply,       \* what the collaborator did in this call
    g_pc,          \* generate_summary: "call" | "returned" | "raised"
    g_news_data,   \* generate_summary: the dataset it is given
    g_reply,       \* what the collaborator did in this call
    digest,        \* generate_summary: the dict it returns
    week_files,    \* data/news_<week>.json: per week, the dataset in the file
    latest_file,   \* data/latest.json: the dataset in the file
    s_last         \* the last entry point that ran, and what came of it

dedupVars == <<d_pc, news_list, unique_news>>
adapterVars == <<a_pc, a_adapter, a_feed, a_result>>
fetchVars == <<f_pc, f_call, all_news, ranked, result>>
parseVars == <<p_pc, response_text, p_result>>
enrichVars == <<e_pc, news_data, e_aliased, e_before, e_reply>>
digestVars == <<g_pc, g_news_data, g_reply, digest>>
storeVars == <<week_files, latest_file, s_last>>

vars == <<dedupVars, now, adapterVars, fetchVars, parseVars, enrichVars, digestVars,
          storeVars>>

---------------------------------------------------------------------------
(* Text helpers *)

Min(a, b) == IF a < b THEN a ELSE b

Str(s) == [t |-> "str", v |-> s]

None == [t |-> "null", v |-> <<>>]

IsStr(x) == x.t = "str"

\* the empty string
NoText == Str(<<>>)

\* str.lower() on one character of the alphabet the model uses
LowerChar(c) ==
    CASE c = "A" -> "a"
      [] c = "B" -> "b"
      [] c = "I" -> "i"
      [] c = "T" -> "t"
      [] OTHER -> c

\* str.lower()
Lower(s) == [i \in 1..Len(s) |-> LowerChar(s[i])]

\* s[:n]
Prefix(s, n) == SubSeq(s, 1, Min(n, Len(s)))

\* n copies of c
Repeat(c, n) == [i \in 1..n |-> c]

---------------------------------------------------------------------------
(* deduplicate_news *)

TITLE_KEY_LEN == 30

\* news["title"][:30].lower()
title_key(news) == Lower(Prefix(news.title.v, TITLE_KEY_LEN))

\* the loop of deduplicate_news from position i on, with the set of keys
\* seen so far and the list built so far
RECURSIVE dedup_loop(_, _, _, _)
dedup_loop(list, i, seen_titles, acc) ==
    IF i > Len(list) THEN acc
    ELSE IF title_key(list[i]) \notin seen_titles
         THEN dedup_loop(list, i + 1, seen_titles \cup {title_key(list[i])},
                         Append(acc, list[i]))
         ELSE dedup_loop(list, i + 1, seen_titles, acc)

\* a loop that lets a later duplicate replace the earlier item
RECURSIVE dedup_keep_last(_, _)
dedup_keep_last(list, i) ==
    IF i > Len(list) THEN <<>>
    ELSE IF \E j \in (i + 1)..Len(list) : title_key(list[j]) = title_key(list[i])
         THEN dedup_keep_last(list, i + 1)
         ELSE <<list[i]>> \o dedup_keep_last(list, i + 1)

\* a loop that forgets a key once it has dropped an item for it
RECURSIVE dedup_loop_forgetting(_, _, _, _)
dedup_loop_forgetting(list, i, seen_titles, acc) ==
    IF i > Len(list) THEN acc
    ELSE IF title_key(list[i]) \notin seen_titles
         THEN dedup_loop_forgetting(list, i + 1, seen_titles \cup {title_key(list[i])},
                                    Append(acc, list[i]))
         ELSE dedup_loop_forgetting(list, i + 1, seen_titles \ {title_key(list[i])}, acc)

\* a dedup that lets every other item of a key through
deduplicate_news_forgetting(list) == dedup_loop_forgetting(list, 1, {}, <<>>)

\* news["title"][:30] raises TypeError when the title is not text
dedup_raises(list) == \E i \in 1..Len(list) : ~IsStr(list[i].title)

\* a dedup that keeps the last item of each key instead of the first
deduplicate_news_keep_last(list) == dedup_keep_last(list, 1)

\* deduplicate_news(news_list): the value returned when it does not raise
deduplicate_news(list) == dedup_loop(list, 1, {}, <<>>)

---------------------------------------------------------------------------
(* Time.  A datetime is [ts |-> seconds since the epoch, aware |-> whether
   it carries a timezone]; datetime.now() is naive.  A calendar date
   (strftime("%Y-%m-%d")) is the day number ts \div DAY. *)

DAY == 86400

LOOKBACK_DAYS == 7

\* the moment the run starts
Now0 == 20000 * DAY + 43200

Naive(ts) == [ts |-> ts, aware |-> FALSE]

Aware(ts) == [ts |-> ts, aware |-> TRUE]

\* a < b on datetimes raises TypeError when exactly one of them is aware
CompareRaises(a, b) == a.aware # b.aware

\* now - timedelta(days=LOOKBACK_DAYS)
Cutoff(t) == Naive(t - LOOKBACK_DAYS * DAY)

\* pub_dt.strftime("%Y-%m-%d")
DateOf(dt) == dt.ts \div DAY

\* datetime.strptime(value, "%Y-%m-%d"): local midnight of that date
Midnight(date) == Naive(date * DAY)

\* no time: None, a missing key, 0 or an empty string
NoTime == 0

---------------------------------------------------------------------------
(* get_google_news *)

IsSpace(c) == c = " "

\* the positions of "-" in s
Dashes(s) == { i \in 1..Len(s) : s[i] = "-" }

LastDash(s) == CHOOSE i \in Dashes(s) : \A j \in Dashes(s) : j <= i

\* where the run of whitespace that ends just before position d starts
RECURSIVE SpaceRunStart(_, _)
SpaceRunStart(s, d) ==
    IF d > 1 /\ IsSpace(s[d - 1]) THEN SpaceRunStart(s, d - 1) ELSE d

\* re.sub(r'\s*-\s*[^-]+$', '', title): the match is the last "-", when a
\* character follows it, with the whitespace before it and all that follows
StripSuffix(s) ==
    IF Dashes(s) = {} \/ LastDash(s) = Len(s) THEN s
    ELSE SubSeq(s, 1, SpaceRunStart(s, LastDash(s)) - 1)

\* entry.get("published_parsed") or entry.get("updated_parsed")
EntryPublished(entry) ==
    IF entry.published_parsed # NoTime THEN entry.published_parsed
    ELSE entry.updated_parsed

\* lines 56-60: the publish moment of a feed entry
google_pub_dt(entry, t) ==
    IF EntryPublished(entry) # NoTime THEN Naive(EntryPublished(entry)) ELSE Naive(t)

\* lines 71-79
google_item(entry, lang, t) ==
    [ title |-> Str(StripSuffix(entry.title.v)),
      link |-> entry.link,
      source |-> entry.source,
      published |-> DateOf(google_pub_dt(entry, t)),
      summary |-> entry.summary,
      lang |-> lang,
      published_ts |-> google_pub_dt(entry, t).ts ]

\* lines 54-79: the loop over feed.entries[:num_results]
RECURSIVE google_loop(_, _, _, _)
google_loop(entries, i, lang, t) ==
    IF i > Len(entries) THEN <<>>
    ELSE (IF google_pub_dt(entries[i], t).ts < Cutoff(t).ts
          THEN <<>>
          ELSE <<google_item(entries[i], lang, t)>>)
         \o google_loop(entries, i + 1, lang, t)

\* get_google_news(query, lang, num_results) at time t, the feed being `feed`
get_google_news(feed, lang, num_results, t) ==
    IF ~feed.ok THEN <<>>
    ELSE google_loop(Prefix(feed.entries, num_results), 1, lang, t)

---------------------------------------------------------------------------
(* get_36kr_news.  published_at is [kind, ts]:
     "absent"        no value                          -> now
     "iso_naive"     ISO text without an offset        -> that moment
     "iso_aware"     ISO text with an offset or Z      -> that moment, aware
     "date_garbage"  not ISO, a date in its first ten  -> midnight of the date
     "garbage"       text that is neither              -> now
     "number"        a JSON number (.replace raises AttributeError)        *)

kr_parse_raises(published_at) == published_at.kind = "number"

\* lines 109-117
kr_pub_dt(published_at, t) ==
    CASE published_at.kind = "absent" -> Naive(t)
      [] published_at.kind = "iso_naive" -> Naive(published_at.ts)
      [] published_at.kind = "iso_aware" -> Aware(published_at.ts)
      [] published_at.kind = "date_garbage" -> Midnight(published_at.ts \div DAY)
      [] OTHER -> Naive(t)

\* lines 122-130
kr_item(rec, t) ==
    [ title |-> rec.title,
      link |-> rec.id,
      source |-> "36kr",
      published |-> DateOf(kr_pub_dt(rec.published_at, t)),
      summary |-> rec.summary,
      lang |-> "zh",
      published_ts |-> kr_pub_dt(rec.published_at, t).ts ]

\* lines 107-130: the loop; [raised, items]
RECURSIVE kr_loop(_, _, _, _)
kr_loop(recs, i, t, acc) ==
    IF i > Len(recs) THEN [raised |-> FALSE, items |-> acc]
    ELSE IF kr_parse_raises(recs[i].published_at)
            \/ CompareRaises(kr_pub_dt(recs[i].published_at, t), Cutoff(t))
         THEN [raised |-> TRUE, items |-> acc]
         ELSE IF kr_pub_dt(recs[i].published_at, t).ts < Cutoff(t).ts
              THEN kr_loop(recs, i + 1, t, acc)
              ELSE kr_loop(recs, i + 1, t, Append(acc, kr_item(recs[i], t)))

\* get_36kr_news(num_results) at time t: any exception gives []
get_36kr_news(feed, num_results, t) ==
    IF ~feed.ok THEN <<>>
    ELSE IF kr_loop(Prefix(feed.entries, num_results), 1, t, <<>>).raised THEN <<>>
         ELSE kr_loop(Prefix(feed.entries, num_results), 1, t, <<>>).items

---------------------------------------------------------------------------
(* get_sspai_news *)

\* needle in hay
Contains(hay, needle) ==
    \E i \in 1..(Len(hay) - Len(needle) + 1) :
        SubSeq(hay, i, i + Len(needle) - 1) = needle

\* line 157; each of the Chinese characters is one character of the model
keywords ==
    << <<"A", "I">>, <<"ren", "gong", "zhi", "neng">>, <<"G", "P", "T">>,
       <<"jin", "rong">>, <<"f", "i", "n", "t", "e", "c", "h">>,
       <<"zhi", "fu">>, <<"yin", "hang">> >>

\* line 164
sspai_relevant(rec) ==
    \E k \in 1..Len(keywords) :
        Contains(Lower(rec.title.v \o rec.summary.v), Lower(keywords[k]))

\* lines 175-183
sspai_item(rec) ==
    [ title |-> rec.title,
      link |-> rec.id,
      source |-> "sspai",
      published |-> DateOf(Naive(rec.released_at)),
      summary |-> rec.summary,
      lang |-> "zh",
      published_ts |-> rec.released_at ]

\* lines 159-186: the loop; [raised, items]
RECURSIVE sspai_loop(_, _, _, _, _)
sspai_loop(recs, i, num_results, t, acc) ==
    IF i > Len(recs) THEN [raised |-> FALSE, items |-> acc]
    ELSE IF ~IsStr(recs[i].title) \/ ~IsStr(recs[i].summary)
         THEN [raised |-> TRUE, items |-> acc]
         ELSE IF ~sspai_relevant(recs[i])
                 \/ recs[i].released_at = NoTime
                 \/ recs[i].released_at < Cutoff(t).ts
              THEN sspai_loop(recs, i + 1, num_results, t, acc)
              ELSE IF Len(acc) + 1 >= num_results
                   THEN [raised |-> FALSE, items |-> Append(acc, sspai_item(recs[i]))]
                   ELSE sspai_loop(recs, i + 1, num_results, t,
                                   Append(acc, sspai_item(recs[i])))

\* get_sspai_news(num_results) at time t: any exception gives []
get_sspai_news(feed, num_results, t) ==
    IF ~feed.ok THEN <<>>
    ELSE IF sspai_loop(feed.entries, 1, num_results, t, <<>>).raised THEN <<>>
         ELSE sspai_loop(feed.entries, 1, num_results, t, <<>>).items

---------------------------------------------------------------------------
(* filter_recent_news, the sort, the cap and the partition of fetch_all_news *)

MAX_TOTAL_NEWS == 20

HasTs(item) == "published_ts" \in DOMAIN item

\* lines 216-220: the publish moment the filter uses
filter_pub_dt(item, t) ==
    IF HasTs(item) THEN Naive(item.published_ts)
    ELSE IF "published" \in DOMAIN item THEN Midnight(item.published)
         ELSE Naive(t)

\* filter_recent_news(news_list) at time t
filter_recent_news(list, t) ==
    SelectSeq(list, LAMBDA item : filter_pub_dt(item, t).ts >= Cutoff(t).ts)

\* x.get("_published_ts", 0)
sort_key(item) == IF HasTs(item) THEN item.published_ts ELSE 0

\* x put into a list sorted by key descending, after the items of its key
RECURSIVE insert_after_equals(_, _)
insert_after_equals(x, sorted) ==
    IF sorted = <<>> THEN <<x>>
    ELSE IF sort_key(Head(sorted)) >= sort_key(x)
         THEN <<Head(sorted)>> \o insert_after_equals(x, Tail(sorted))
         ELSE <<x>> \o sorted

\* x put into a list sorted by key descending, before the items of its key
RECURSIVE insert_before_equals(_, _)
insert_before_equals(x, sorted) ==
    IF sorted = <<>> THEN <<x>>
    ELSE IF sort_key(Head(sorted)) > sort_key(x)
         THEN <<Head(sorted)>> \o insert_before_equals(x, Tail(sorted))
         ELSE <<x>> \o sorted

RECURSIVE sort_from(_, _, _)
sort_from(list, i, sorted) ==
    IF i > Len(list) THEN sorted
    ELSE sort_from(list, i + 1, insert_after_equals(list[i], sorted))

RECURSIVE unstable_sort_from(_, _, _)
unstable_sort_from(list, i, sorted) ==
    IF i > Len(list) THEN sorted
    ELSE unstable_sort_from(list, i + 1, insert_before_equals(list[i], sorted))

\* a descending sort that reverses the items of equal key
sort_desc_unstable(list) == unstable_sort_from(list, 1, <<>>)

\* all_news.sort(key=..., reverse=True): stable, descending
sort_desc(list) == sort_from(list, 1, <<>>)

\* a cap that lets one item too many through
cap_total_off_by_one(list) == Prefix(list, MAX_TOTAL_NEWS + 1)

\* all_news[:MAX_TOTAL_NEWS]
cap_total(list) == Prefix(list, MAX_TOTAL_NEWS)

\* [n for n in all_news if n.get("lang") == lang]
by_lang(list, lang) == SelectSeq(list, LAMBDA n : n.lang = lang)

\* n.pop("_published_ts", None)
pop_ts(n) == [k \in DOMAIN n \ {"published_ts"} |-> n[k]]

pop_ts_all(list) == [i \in 1..Len(list) |-> pop_ts(list[i])]

\* datetime.now().strftime("%Y-W%W"): the week a moment falls in
WeekOf(t) == t \div (7 * DAY)

\* lines 285-293; the partitions hold the very objects of all_news, so the
\* pop of _published_ts shows in them too
dataset(final, t) ==
    [ fetch_date |-> DateOf(Naive(t)),
      week |-> WeekOf(t),
      total_count |-> Len(final),
      lookback_days |-> LOOKBACK_DAYS,
      en_news |-> pop_ts_all(by_lang(final, "en")),
      zh_news |-> pop_ts_all(by_lang(final, "zh")),
      all_news |-> pop_ts_all(final) ]

EmptyDataset == dataset(<<>>, 0)

\* lines 265-275: dedup, filter at time t, sort, cap
rank(concat, t) == cap_total(sort_desc(filter_recent_news(deduplicate_news(concat), t)))

---------------------------------------------------------------------------
(* The response parsing of generate_news_enhancements.  The response text
   is a sequence of tokens:
     "{" "}"   the braces of a JSON object
     "k"       the members of an object, "results": [...] among them
     "n"       a JSON scalar
     "w"       a word of prose
     "F"       a code fence, three backquotes
     "j"       the word json
   Whitespace is left out: json.loads and the fence pattern skip it. *)

Tokens == {"{", "}", "k", "n", "w", "F", "j"}

\* json.loads(text): "object" with a results member, "empty" object,
\* "scalar", or "invalid" (JSONDecodeError)
JsonLoads(text) ==
    CASE text = <<"{", "k", "}">> -> "object"
      [] text = <<"{", "}">> -> "empty"
      [] text = <<"n">> -> "scalar"
      [] OTHER -> "invalid"

\* the positions of token c in text
PositionsOf(text, c) == { i \in 1..Len(text) : text[i] = c }

MinOf(S) == CHOOSE x \in S : \A y \in S : x <= y

MaxOf(S) == CHOOSE x \in S : \A y \in S : y <= x

\* re.search(r'```(?:json)?\s*([\s\S]*?)\s*```', text): a fence and the next
\* fence after it (and after the word json, when it follows the first)
HasFencedBlock(text) == Cardinality(PositionsOf(text, "F")) >= 2

\* json_match.group(1)
FencedContents(text) ==
    LET open == MinOf(PositionsOf(text, "F"))
        close == MinOf({ i \in PositionsOf(text, "F") : i > open })
        first == IF open + 1 < close /\ text[open + 1] = "j" THEN open + 2
                 ELSE open + 1
    IN  SubSeq(text, first, close - 1)

\* start = text.find('{'), end = text.rfind('}') + 1, 0-based
BraceStart(text) ==
    IF PositionsOf(text, "{") = {} THEN -1 ELSE MinOf(PositionsOf(text, "{")) - 1

BraceEnd(text) ==
    IF PositionsOf(text, "}") = {} THEN 0 ELSE MaxOf(PositionsOf(text, "}"))

\* text[start:end]
BraceSpan(text) == SubSeq(text, BraceStart(text) + 1, BraceEnd(text))

NotParsed == "none"

\* lines 198-213: the value of result, or "invalid" when an exception leaves
\* the block (JSONDecodeError of a later json.loads, or ValueError)
parse_json(text) ==
    IF JsonLoads(text) # "invalid" THEN JsonLoads(text)
    ELSE IF HasFencedBlock(text)
         THEN JsonLoads(FencedContents(text))
         ELSE IF BraceStart(text) # -1 /\ BraceEnd(text) > BraceStart(text)
              THEN JsonLoads(BraceSpan(text))
              ELSE "invalid"

\* lines 194-215: "results" when result.get("results", []) is the results
\* of the response, "no_results" when it is the default [], "failed" when
\* the function raises (a scalar has no .get)
parse_response(text) ==
    CASE parse_json(text) = "object" -> "results"
      [] parse_json(text) = "empty" -> "no_results"
      [] OTHER -> "failed"

---------------------------------------------------------------------------
(* enhance_news_data.  A news item is a function from its keys; an entry of
   the response's results is [dict, index] and, when it carries them,
   title_zh and ai_summary.  index is [k, n]: k = "int" with the number n,
   "none" (no index, or null) or "str" (text). *)

\* d.get(key, default)
Get(d, key, default) == IF key \in DOMAIN d THEN d[key] ELSE default

\* d[key] = value
Put(d, key, value) ==
    [x \in DOMAIN d \cup {key} |-> IF x = key THEN value ELSE d[x]]

IntIdx(n) == [k |-> "int", n |-> n]

NoIdx == [k |-> "none", n |-> 0]

StrIdx == [k |-> "str", n |-> 0]

\* all_news[idx] for an int idx, as a position of the model's 1-based list:
\* a negative idx counts from the end
PyPos(idx, len) == IF idx >= 0 THEN idx + 1 ELSE len + idx + 1

\* lines 235-238 raise: the entry is no dict (no .get), the index is text
\* (str < int), or a negative index reaches before the list's start
merge_raises(entry, list) ==
    \/ ~entry.dict
    \/ entry.index.k = "str"
    \/ entry.index.k = "int" /\ entry.index.n < 0 - Len(list)

\* line 236: idx is not None and idx < len(all_news)
merge_applies(entry, list) == entry.index.k = "int" /\ entry.index.n < Len(list)

\* lines 237-238 on all_news[idx]
merge_entry(entry, news) ==
    Put(Put(news, "title_zh", Get(entry, "title_zh", news.title)),
        "ai_summary", Get(entry, "ai_summary", NoText))

\* lines 234-238: the loop over enhancements; [raised, list]
RECURSIVE merge_loop(_, _, _)
merge_loop(enhancements, i, list) ==
    IF i > Len(enhancements) THEN [raised |-> FALSE, list |-> list]
    ELSE IF merge_raises(enhancements[i], list)
         THEN [raised |-> TRUE, list |-> list]
         ELSE IF merge_applies(enhancements[i], list)
              THEN merge_loop(enhancements, i + 1,
                      [list EXCEPT ![PyPos(enhancements[i].index.n, Len(list))] =
                          merge_entry(enhancements[i], @)])
              ELSE merge_loop(enhancements, i + 1, list)

\* the partition line 242 picks for a news item
branch(news) == IF news.lang = "en" THEN "en" ELSE "zh"

\* lines 245-246 / 250-251: the fields of news written to a partition entry
sync_entry(entry, news) ==
    Put(Put(entry, "title_zh", Get(news, "title_zh", NoText)),
        "ai_summary", Get(news, "ai_summary", NoText))

\* lines 241-251 for the copies that make up partition `lang`: the pass of
\* item i of the flat list over them, then the later items
RECURSIVE sync_partition(_, _, _, _)
sync_partition(part, flat, i, lang) ==
    IF i > Len(flat) THEN part
    ELSE sync_partition(
            IF branch(flat[i]) = lang
            THEN [j \in 1..Len(part) |->
                    IF part[j].title = flat[i].title
                    THEN sync_entry(part[j], flat[i]) ELSE part[j]]
            ELSE part,
            flat, i + 1, lang)

\* lines 241-251 when the partitions hold the objects of the flat list: the
\* writes land on the items of the flat list themselves
RECURSIVE sync_aliased(_, _)
sync_aliased(flat, i) ==
    IF i > Len(flat) THEN flat
    ELSE sync_aliased(
            [j \in 1..Len(flat) |->
                IF flat[j].lang = branch(flat[i]) /\ flat[j].title = flat[i].title
                THEN sync_entry(flat[j], flat[i]) ELSE flat[j]],
            i + 1)

AI_SUMMARY_LEN == 100

\* lines 259-262: the defaults of the failure path
fallback_item(news) ==
    LET with_title == IF "title_zh" \in DOMAIN news THEN news
                      ELSE Put(news, "title_zh", news.title)
    IN  IF "ai_summary" \in DOMAIN with_title THEN with_title
        ELSE Put(with_title, "ai_summary",
                 Str(Prefix(Get(news, "summary", NoText).v, AI_SUMMARY_LEN)))

fallback_all(list) == [i \in 1..Len(list) |-> fallback_item(list[i])]

\* the dataset with its flat list replaced; the partitions follow when they
\* hold the same objects
with_all_news(data, list, aliased) ==
    IF aliased
    THEN [data EXCEPT !.all_news = list,
                      !.en_news = by_lang(list, "en"),
                      !.zh_news = by_lang(list, "zh")]
    ELSE [data EXCEPT !.all_news = list]

\* lines 255-262: the except branch, the flat list being `list` by then
on_failure(data, list, aliased) == with_all_news(data, fallback_all(list), aliased)

\* lines 240-251: the sync after a merge that gave `list`
on_success(data, list, aliased) ==
    IF aliased
    THEN with_all_news(data, sync_aliased(list, 1), TRUE)
    ELSE [data EXCEPT !.all_news = list,
                      !.en_news = sync_partition(data.en_news, list, 1, "en"),
                      !.zh_news = sync_partition(data.zh_news, list, 1, "zh")]

\* the collaborator's part in one call: kind is
\*   "client_error"   get_client() raises (no API key)
\*   "request_error"  client.chat.completions.create raises
\*   "text"           a completion, its text and the results it carries
NoReply == [kind |-> "none", text |-> <<>>, results |-> <<>>]

\* the list generate_news_enhancements returns
enhancements_of(reply) ==
    IF parse_response(reply.text) = "results" THEN reply.results ELSE <<>>

\* generate_news_enhancements raises
enhancements_raise(reply) ==
    reply.kind = "request_error" \/ parse_response(reply.text) = "failed"

\* lines 218-264: [pc, data] after enhance_news_data(data) with this reply
enhance_news_data(data, reply, aliased) ==
    IF reply.kind = "client_error" THEN [pc |-> "raised", data |-> data]
    ELSE IF data.all_news = <<>> THEN [pc |-> "returned", data |-> data]
    ELSE IF enhancements_raise(reply)
         THEN [pc |-> "returned", data |-> on_failure(data, data.all_news, aliased)]
         ELSE LET merged == merge_loop(enhancements_of(reply), 1, data.all_news)
              IN  IF merged.raised
                  THEN [pc |-> "returned",
                        data |-> on_failure(data, merged.list, aliased)]
                  ELSE [pc |-> "returned",
                        data |-> on_success(data, merged.list, aliased)]

---------------------------------------------------------------------------
(* markdown_to_html.  The text is a sequence of lines, each given by its
   kind: "h1" "h2" "h3" (a line of # marks, a space and text), "bullet"
   ("- text"), "numbered" ("1. text"), "bold" (text that starts with a
   **bold** span), "plain" (other text) and "blank".  The markup is a
   sequence of lines, each a sequence of pieces. *)

LineKinds == {"h1", "h2", "h3", "bullet", "numbered", "bold", "plain", "blank"}

\* lines 58-67: the substitutions within one line
md_line(kind) ==
    CASE kind = "h1" -> <<"<h1>">>
      [] kind = "h2" -> <<"<h2>">>
      [] kind = "h3" -> <<"<h3>">>
      [] kind \in {"bullet", "numbered"} -> <<"<li>">>
      [] kind = "bold" -> <<"<strong>", "text">>
      [] kind = "plain" -> <<"text">>
      [] OTHER -> <<>>

IsLi(line) == line = <<"<li>">>

\* line 70: a run of <li> lines, each with the line break after it, is put
\* between <ul> and </ul>; the </ul> lands at the start of the next line
md_wrap(lines) ==
    [i \in 1..Len(lines) |->
        (IF i > 1 /\ IsLi(lines[i - 1]) /\ ~IsLi(lines[i]) THEN <<"</ul>">> ELSE <<>>)
        \o (IF IsLi(lines[i]) /\ (i = 1 \/ ~IsLi(lines[i - 1])) THEN <<"<ul>">> ELSE <<>>)
        \o lines[i]
        \o (IF i = Len(lines) /\ IsLi(lines[i]) THEN <<"</ul>">> ELSE <<>>)]

\* lines 75-80: a line that does not start with a tag becomes a paragraph
md_paragraph(line) == IF Head(line) = "text" THEN <<"<p>">> \o line ELSE line

\* lines 73-82: blank lines are dropped
RECURSIVE md_paragraphs(_, _)
md_paragraphs(lines, i) ==
    IF i > Len(lines) THEN <<>>
    ELSE (IF lines[i] = <<>> THEN <<>> ELSE <<md_paragraph(lines[i])>>)
         \o md_paragraphs(lines, i + 1)

\* markdown_to_html(text)
markdown_to_html(text) ==
    md_paragraphs(md_wrap([i \in 1..Len(text) |-> md_line(text[i])]), 1)

---------------------------------------------------------------------------
(* generate_summary.  The collaborator's part in one call: kind is
     "client_error"   get_client() raises (no API key)
     "request_error"  client.chat.completions.create raises
     "no_content"     a completion whose content is None
     "text"           a completion with text *)

NoDigestReply == [kind |-> "none", text |-> <<>>]

NoDigest == [week |-> 0]

\* get_model()
MODEL == "gpt-4o-mini"

\* lines 278-285
digest_of(data, text, t) ==
    [ week |-> Get(data, "week", WeekOf(t)),
      generated_at |-> t,
      summary |-> markdown_to_html(text),
      summary_raw |-> text,
      model |-> MODEL,
      news_count |-> Len(Get(data, "all_news", <<>>)) ]

\* lines 289-296
fallback_digest(data, error, t) ==
    [ week |-> Get(data, "week", WeekOf(t)),
      generated_at |-> t,
      summary |-> << <<"<h2>">>, <<"<p>", Len(Get(data, "all_news", <<>>))>>,
                     <<"<p>", error>> >>,
      model |-> "fallback",
      news_count |-> Len(Get(data, "all_news", <<>>)),
      error |-> error ]

\* lines 267-296: [pc, digest] after generate_summary(data) with this reply;
\* None as the text makes re.sub raise TypeError inside the try
generate_summary(data, reply, t) ==
    CASE reply.kind = "client_error" -> [pc |-> "raised", digest |-> NoDigest]
      [] reply.kind = "text" ->
            [pc |-> "returned", digest |-> digest_of(data, reply.text, t)]
      [] OTHER ->
            [pc |-> "returned", digest |-> fallback_digest(data, reply.kind, t)]

---------------------------------------------------------------------------
(* Bounds and inputs of the deduplication check *)

MaxDedupList == 3

Stem29 == Repeat("s", 29)

DedupTitles ==
    { Str(Stem29 \o tail) :
        tail \in { <<>>, <<"a">>, <<"A">>, <<"b">>, <<"a", "x">>, <<"A", "y">> } }
    \cup { Str(<<"A", "I">>), Str(<<"a", "i">>), None }

DedupItems == [title : DedupTitles, link : {1, 2}]

SeqsUpTo(S, n) == UNION { [1..k -> S] : k \in 0..n }

DedupIdle ==
    /\ d_pc = "idle"
    /\ news_list = <<>>
    /\ unique_news = <<>>

AdapterIdle ==
    /\ a_pc = "idle"
    /\ a_adapter = "none"
    /\ a_feed = [ok |-> FALSE, entries |-> <<>>]
    /\ a_result = <<>>

FetchIdle ==
    /\ f_pc = "idle"
    /\ f_call = 0
    /\ all_news = <<>>
    /\ ranked = <<>>
    /\ result = EmptyDataset

ParseIdle ==
    /\ p_pc = "idle"
    /\ response_text = <<>>
    /\ p_result = NotParsed

EnrichIdle ==
    /\ e_pc = "idle"
    /\ news_data = EmptyDataset
    /\ e_aliased = FALSE
    /\ e_before = EmptyDataset
    /\ e_reply = NoReply

DigestIdle ==
    /\ g_pc = "idle"
    /\ g_news_data = EmptyDataset
    /\ g_reply = NoDigestReply
    /\ digest = NoDigest

\* no file: the path does not exist
NoFile == [missing |-> TRUE]

MaxWeeks == 1

\* the week the first run falls in
Week0 == WeekOf(Now0)

\* the weeks the runs may fall in
StoreWeeks == Week0..(Week0 + MaxWeeks)

\* no run yet
NoRun == [op |-> "none", week |-> 0, outcome |-> "none"]

StoreIdle ==
    /\ week_files = [w \in StoreWeeks |-> NoFile]
    /\ latest_file = NoFile
    /\ s_last = NoRun

InitDedup ==
    /\ d_pc = "call"
    /\ news_list \in SeqsUpTo(DedupItems, MaxDedupList)
    /\ unique_news = <<>>
    /\ now = Now0
    /\ AdapterIdle
    /\ FetchIdle
    /\ ParseIdle
    /\ EnrichIdle
    /\ DigestIdle
    /\ StoreIdle

DedupReturn ==
    /\ d_pc = "call"
    /\ ~dedup_raises(news_list)
    /\ unique_news' = deduplicate_news(news_list)
    /\ d_pc' = "done"
    /\ UNCHANGED <<news_list, now, adapterVars, fetchVars, parseVars, enrichVars, digestVars,
                   storeVars>>

DedupRaise ==
    /\ d_pc = "call"
    /\ dedup_raises(news_list)
    /\ d_pc' = "raised"
    /\ UNCHANGED <<news_list, unique_news, now, adapterVars, fetchVars, parseVars, enrichVars, digestVars,
                   storeVars>>

\* deduplicate_news called on the list the first call returned
DedupAgain ==
    /\ d_pc = "done"
    /\ ~dedup_raises(unique_news)
    /\ unique_news' = deduplicate_news(unique_news)
    /\ d_pc' = "again"
    /\ UNCHANGED <<news_list, now, adapterVars, fetchVars, parseVars, enrichVars, digestVars,
                   storeVars>>

NextDedup == DedupReturn \/ DedupRaise \/ DedupAgain

SpecDedup == InitDedup /\ [][NextDedup]_vars

---------------------------------------------------------------------------
(* C1 *)

\* the fingerprint of the claim: lowercase of the first 30 characters
Fingerprint(item) ==
    [i \in 1..Min(30, Len(item.title.v)) |-> LowerChar(item.title.v[i])]

\* the positions of xs that are the first of their fingerprint
FirstPositions(xs) ==
    { i \in 1..Len(xs) : \A j \in 1..(i - 1) : Fingerprint(xs[j]) # Fingerprint(xs[i]) }

\* the subsequence of xs at the positions of P, in order
RECURSIVE SubSeqAt(_, _, _)
SubSeqAt(xs, P, i) ==
    IF i > Len(xs) THEN <<>>
    ELSE (IF i \in P THEN <<xs[i]>> ELSE <<>>) \o SubSeqAt(xs, P, i + 1)

\* C1: deduplicate_news returns the order-preserving subsequence that keeps
\* exactly the first item of each fingerprint (lowercase of the first 30
\* characters of title) and drops every later item of the same fingerprint.
C1_DedupKeepsFirst ==
    d_pc = "done" =>
        unique_news = SubSeqAt(news_list, FirstPositions(news_list), 1)

\* two items whose titles differ only in case at position 30 and beyond it,
\* collapsed to the earlier one
C1_Witness ==
    /\ d_pc = "done"
    /\ Len(news_list) = 2
    /\ news_list[1].title = Str(Stem29 \o <<"A", "y">>)
    /\ news_list[2].title = Str(Stem29 \o <<"a", "x">>)
    /\ unique_news = <<news_list[1]>>

---------------------------------------------------------------------------
(* C13 *)

\* C13: deduplicate_news is idempotent: for every input sequence xs,
\* deduplicate_news(deduplicate_news(xs)) equals deduplicate_news(xs).
C13_DedupIdempotent ==
    d_pc = "again" => unique_news = deduplicate_news(news_list)

\* two items of one fingerprint with an item of another between them went
\* in, the first call dropped the third, and the second call returned the
\* two that were left
C13_Witness ==
    /\ d_pc = "again"
    /\ Len(news_list) = 3
    /\ Fingerprint(news_list[1]) = Fingerprint(news_list[3])
    /\ Fingerprint(news_list[1]) # Fingerprint(news_list[2])
    /\ unique_news = <<news_list[1], news_list[2]>>

---------------------------------------------------------------------------
(* One adapter call on every short provider answer *)

MaxFeed == 2

\* a moment inside the lookback window, and one before it
Recent == Now0 - 3600

Old == Now0 - 8 * DAY

\* titles as the feed sends them: "AI - T" (a headline and its site name),
\* "AI" (no site name) and "- T" (nothing before the site name)
GoogleTitles ==
    { Str(<<"A", "I", " ", "-", " ", "T">>), Str(<<"A", "I">>), Str(<<"-", " ", "T">>) }

GoogleEntries ==
    [ title : GoogleTitles,
      link : {1, 2},
      source : {"feed"},
      summary : {NoText},
      published_parsed : {NoTime, Recent, Old},
      updated_parsed : {NoTime, Recent} ]

KrStamps ==
    { [kind |-> "absent", ts |-> NoTime],
      [kind |-> "garbage", ts |-> NoTime],
      [kind |-> "number", ts |-> Recent],
      [kind |-> "iso_naive", ts |-> Recent],
      [kind |-> "iso_naive", ts |-> Old],
      [kind |-> "iso_aware", ts |-> Recent],
      [kind |-> "date_garbage", ts |-> Recent] }

KrRecords ==
    [ title : {Str(<<"A", "I">>)},
      id : {1, 2},
      summary : {NoText},
      published_at : KrStamps ]

SspaiRecords ==
    [ title : {Str(<<"A", "I">>), Str(<<"x">>)},
      id : {1, 2},
      summary : {NoText},
      released_at : {NoTime, Recent, Old} ]

RecordsOf(adapter) ==
    CASE adapter = "google" -> GoogleEntries
      [] adapter = "36kr" -> KrRecords
      [] OTHER -> SspaiRecords

InitAdapter ==
    /\ a_pc = "call"
    /\ a_adapter \in {"google", "36kr", "sspai"}
    /\ \E ok \in BOOLEAN, entries \in SeqsUpTo(RecordsOf(a_adapter), MaxFeed) :
          /\ ok = FALSE => entries = <<>>
          /\ a_feed = [ok |-> ok, entries |-> entries]
    /\ a_result = <<>>
    /\ now = Now0
    /\ DedupIdle
    /\ FetchIdle
    /\ ParseIdle
    /\ EnrichIdle
    /\ DigestIdle
    /\ StoreIdle

\* the per-call limit the callers pass (lines 243, 255, 260, 263)
NUM_RESULTS == 5

CallGoogle ==
    /\ a_pc = "call"
    /\ a_adapter = "google"
    /\ \E lang \in {"en", "zh"} :
          a_result' = get_google_news(a_feed, lang, NUM_RESULTS, now)
    /\ a_pc' = "done"
    /\ UNCHANGED <<a_adapter, a_feed, now, dedupVars, fetchVars, parseVars, enrichVars, digestVars,
                   storeVars>>

Call36kr ==
    /\ a_pc = "call"
    /\ a_adapter = "36kr"
    /\ a_result' = get_36kr_news(a_feed, NUM_RESULTS, now)
    /\ a_pc' = "done"
    /\ UNCHANGED <<a_adapter, a_feed, now, dedupVars, fetchVars, parseVars, enrichVars, digestVars,
                   storeVars>>

CallSspai ==
    /\ a_pc = "call"
    /\ a_adapter = "sspai"
    /\ a_result' = get_sspai_news(a_feed, NUM_RESULTS, now)
    /\ a_pc' = "done"
    /\ UNCHANGED <<a_adapter, a_feed, now, dedupVars, fetchVars, parseVars, enrichVars, digestVars,
                   storeVars>>

NextAdapter == CallGoogle \/ Call36kr \/ CallSspai

SpecAdapter == InitAdapter /\ [][NextAdapter]_vars

---------------------------------------------------------------------------
(* C7 *)

\* the record carries no timestamp, or one that does not parse
TimestampMissing(adapter, rec) ==
    CASE adapter = "google" ->
             rec.published_parsed = NoTime /\ rec.updated_parsed = NoTime
      [] adapter = "36kr" -> rec.published_at.kind \in {"absent", "garbage"}
      [] OTHER -> rec.released_at = NoTime

\* the moment a valid timestamp names
TimestampMoment(adapter, rec) ==
    CASE adapter = "google" ->
             IF rec.published_parsed # NoTime THEN rec.published_parsed
             ELSE rec.updated_parsed
      [] adapter = "36kr" ->
             IF rec.published_at.kind = "date_garbage"
             THEN (rec.published_at.ts \div DAY) * DAY
             ELSE rec.published_at.ts
      [] OTHER -> rec.released_at

\* the record is to be yielded: no usable timestamp, or one inside the window
ToBeYielded(adapter, rec) ==
    \/ TimestampMissing(adapter, rec)
    \/ TimestampMoment(adapter, rec) >= now - LOOKBACK_DAYS * DAY

\* the records the adapter looks at
Considered(adapter, feed) ==
    IF adapter = "sspai"
    THEN SelectSeq(feed.entries, sspai_relevant)
    ELSE SubSeq(feed.entries, 1, Min(NUM_RESULTS, Len(feed.entries)))

IdOf(adapter, rec) == IF adapter = "google" THEN rec.link ELSE rec.id

\* the ids of the records to be yielded, in order, at most NUM_RESULTS
YieldedIds(adapter, feed) ==
    LET keep == SelectSeq(Considered(adapter, feed),
                          LAMBDA r : ToBeYielded(adapter, r))
    IN  [i \in 1..Min(NUM_RESULTS, Len(keep)) |-> IdOf(adapter, keep[i])]

\* C7: in every adapter a record whose timestamp is absent or does not parse
\* is yielded with the current time as its moment, and a record with a valid
\* timestamp inside the window costs no other record of the call: whenever the
\* provider answers with records whose timestamps are text or absent, the
\* adapter yields exactly the records without a usable timestamp and the
\* records inside the window.
C7_TimestampNeverRejects ==
    ( /\ a_pc = "done"
      /\ a_feed.ok
      /\ a_adapter = "36kr" =>
            \A i \in 1..Len(a_feed.entries) :
                a_feed.entries[i].published_at.kind # "number" )
    => [i \in 1..Len(a_result) |-> a_result[i].link] = YieldedIds(a_adapter, a_feed)

---------------------------------------------------------------------------
(* C11 *)

\* the entries of the feed that get_google_news yields an item for
GoogleYielded(feed) ==
    SelectSeq(Considered("google", feed), LAMBDA r : ToBeYielded("google", r))

\* the title the item is to carry: the title without its trailing site-name
\* suffix, or the original title when nothing would be left
TitleToCarry(title) ==
    IF StripSuffix(title) = <<>> THEN title ELSE StripSuffix(title)

\* C11: for every non-empty provider title, the item get_google_news produces
\* has a non-empty title after suffix-stripping: when removing the trailing
\* " - <source>" suffix would leave nothing, the original title is kept.
C11_TitleNeverEmptied ==
    (a_pc = "done" /\ a_adapter = "google" /\ a_feed.ok) =>
        /\ Len(a_result) = Len(GoogleYielded(a_feed))
        /\ \A i \in 1..Len(a_result) :
              GoogleYielded(a_feed)[i].title.v # <<>> =>
                  /\ a_result[i].title.v # <<>>
                  /\ a_result[i].title.v = TitleToCarry(GoogleYielded(a_feed)[i].title.v)

---------------------------------------------------------------------------
(* fetch_all_news: the nine adapter calls in order, then the rest *)

\* lines 234-263: four English queries, three Chinese ones, 36kr, sspai
Calls ==
    << [adapter |-> "google", lang |-> "en"], [adapter |-> "google", lang |-> "en"],
       [adapter |-> "google", lang |-> "en"], [adapter |-> "google", lang |-> "en"],
       [adapter |-> "google", lang |-> "zh"], [adapter |-> "google", lang |-> "zh"],
       [adapter |-> "google", lang |-> "zh"],
       [adapter |-> "36kr", lang |-> "zh"], [adapter |-> "sspai", lang |-> "zh"] >>

\* what call c returns at time t when the provider answers with feed
call_adapter(c, feed, t) ==
    CASE Calls[c].adapter = "google" ->
             get_google_news(feed, Calls[c].lang, NUM_RESULTS, t)
      [] Calls[c].adapter = "36kr" -> get_36kr_news(feed, NUM_RESULTS, t)
      [] OTHER -> get_sspai_news(feed, NUM_RESULTS, t)

\* the entries of a full answer
FullFeedLen == 6

\* the seconds that may pass between the adapter calls and the filter
MaxElapsed == 1

Digit(n) == <<"0", "1", "2", "3", "4", "5", "6", "7", "8", "9">>[n + 1]

\* the title of entry k of the answer to query c, with a site-name suffix
QueryTitle(c, k) == <<"q", Digit(c), "n", Digit(k), " ", "-", " ", "T">>

\* a full answer to query c: entry k is k hours old, whatever the query
FullFeed(c) ==
    [ ok |-> TRUE,
      entries |-> [k \in 1..FullFeedLen |->
          [ title |-> Str(QueryTitle(c, k)),
            link |-> 10 * c + k,
            source |-> "feed",
            summary |-> NoText,
            published_parsed |-> Now0 - k * 3600,
            updated_parsed |-> NoTime ]] ]

\* an answer every query may get: two stories that share their first 30
\* characters up to case, a story out of the window, a story with no date
SharedFeed ==
    [ ok |-> TRUE,
      entries |->
        << [ title |-> Str(Stem29 \o <<"A", "x", " ", "-", " ", "T">>), link |-> 91,
             source |-> "feed", summary |-> NoText,
             published_parsed |-> Now0 - 3600, updated_parsed |-> NoTime ],
           [ title |-> Str(Stem29 \o <<"a", "y">>), link |-> 92,
             source |-> "feed", summary |-> NoText,
             published_parsed |-> Now0 - 2 * 3600, updated_parsed |-> NoTime ],
           [ title |-> Str(<<"o", "l", "d">>), link |-> 93,
             source |-> "feed", summary |-> NoText,
             published_parsed |-> Old, updated_parsed |-> NoTime ],
           [ title |-> Str(<<"n", "e", "w">>), link |-> 94,
             source |-> "feed", summary |-> NoText,
             published_parsed |-> NoTime, updated_parsed |-> NoTime ],
           [ title |-> Str(<<"e", "d", "g", "e">>), link |-> 95,
             source |-> "feed", summary |-> NoText,
             published_parsed |-> Now0 - LOOKBACK_DAYS * DAY,
             updated_parsed |-> NoTime ] >> ]

FailedFeed == [ok |-> FALSE, entries |-> <<>>]

KrRecord(title, id, stamp) ==
    [title |-> title, id |-> id, summary |-> NoText, published_at |-> stamp]

KrFeeds ==
    { FailedFeed,
      [ ok |-> TRUE,
        entries |->
          << KrRecord(Str(<<"q", "1", "n", "1">>), 81,
                      [kind |-> "iso_naive", ts |-> Now0 - 3600]),
             KrRecord(Str(<<"k", "r">>), 82, [kind |-> "absent", ts |-> NoTime]),
             KrRecord(Str(<<"k", "d">>), 83,
                      [kind |-> "date_garbage", ts |-> Now0 - 3600]) >> ],
      [ ok |-> TRUE,
        entries |->
          << KrRecord(None, 84, [kind |-> "iso_naive", ts |-> Now0 - 3600]),
             KrRecord(Str(<<"k", "r">>), 85, [kind |-> "absent", ts |-> NoTime]) >> ],
      [ ok |-> TRUE,
        entries |->
          << KrRecord(Str(<<"k", "r">>), 86, [kind |-> "absent", ts |-> NoTime]),
             KrRecord(Str(<<"k", "a">>), 87,
                      [kind |-> "iso_aware", ts |-> Now0 - 3600]) >> ] }

SspaiFeeds ==
    { FailedFeed,
      [ ok |-> TRUE,
        entries |-> [k \in 1..FullFeedLen |->
          [ title |-> Str(<<"A", "I", Digit(k)>>),
            id |-> 70 + k,
            summary |-> NoText,
            released_at |-> Now0 - k * 3600 ]] ] }

\* the answers call c may get
FeedsOf(c) ==
    CASE Calls[c].adapter = "google" -> {FailedFeed, FullFeed(c), SharedFeed}
      [] Calls[c].adapter = "36kr" -> KrFeeds
      [] OTHER -> SspaiFeeds

InitFetch ==
    /\ f_pc = "calls"
    /\ f_call = 1
    /\ all_news = <<>>
    /\ ranked = <<>>
    /\ result = EmptyDataset
    /\ now = Now0
    /\ DedupIdle
    /\ AdapterIdle
    /\ ParseIdle
    /\ EnrichIdle
    /\ DigestIdle
    /\ StoreIdle

\* lines 241-263: all_news.extend(<the next adapter call>)
FetchCall ==
    /\ f_pc = "calls"
    /\ f_call <= Len(Calls)
    /\ \E feed \in FeedsOf(f_call) :
          all_news' = all_news \o call_adapter(f_call, feed, now)
    /\ f_call' = f_call + 1
    /\ UNCHANGED <<f_pc, ranked, result, now, dedupVars, adapterVars, parseVars, enrichVars, digestVars,
                   storeVars>>

\* lines 265-297 when deduplicate_news returns
FetchFinish ==
    /\ f_pc = "calls"
    /\ f_call > Len(Calls)
    /\ ~dedup_raises(all_news)
    /\ \E elapsed \in 0..MaxElapsed :
          /\ now' = now + elapsed
          /\ ranked' = rank(all_news, now')
          /\ result' = dataset(ranked', now')
    /\ f_pc' = "done"
    /\ UNCHANGED <<f_call, all_news, dedupVars, adapterVars, parseVars, enrichVars, digestVars,
                   storeVars>>

\* line 266 when deduplicate_news raises: nothing in fetch_all_news catches it
FetchRaise ==
    /\ f_pc = "calls"
    /\ f_call > Len(Calls)
    /\ dedup_raises(all_news)
    /\ f_pc' = "raised"
    /\ UNCHANGED <<f_call, all_news, ranked, result, now, dedupVars, adapterVars, parseVars, enrichVars, digestVars,
                   storeVars>>

NextFetch == FetchCall \/ FetchFinish \/ FetchRaise

SpecFetch == InitFetch /\ [][NextFetch]_vars

---------------------------------------------------------------------------
(* C2 *)

\* the first position of x in xs
PosIn(x, xs) == CHOOSE i \in 1..Len(xs) : xs[i] = x /\ \A j \in 1..(i - 1) : xs[j] # x

\* C2: after aggregation the items are ordered by publishedEpoch descending,
\* and two items of equal publishedEpoch are in the order of the adapter and
\* query calls that produced them.
C2_SortedStable ==
    f_pc = "done" =>
        /\ Len(result.all_news) = Len(ranked)
        /\ \A i \in 1..Len(ranked) :
              /\ result.all_news[i].link = ranked[i].link
              /\ \E k \in 1..Len(all_news) : all_news[k] = ranked[i]
        /\ \A i, j \in 1..Len(ranked) :
              i < j =>
                 /\ ranked[i].published_ts >= ranked[j].published_ts
                 /\ ranked[i].published_ts = ranked[j].published_ts
                       => PosIn(ranked[i], all_news) < PosIn(ranked[j], all_news)

\* items of three different calls with the same publishedEpoch, in call order
C2_Witness ==
    /\ f_pc = "done"
    /\ \E i, j, k \in 1..Len(ranked) :
          /\ i < j /\ j < k
          /\ ranked[i].published_ts = ranked[j].published_ts
          /\ ranked[j].published_ts = ranked[k].published_ts
          /\ ranked[i].link = 12 /\ ranked[j].link = 52 /\ ranked[k].link = 72
    /\ \E i \in 1..(Len(ranked) - 1) :
          ranked[i].published_ts > ranked[i + 1].published_ts

---------------------------------------------------------------------------
(* C3 *)

\* C3: the dataset returned by aggregation has at most totalCap (20) items
\* and its two language partitions together hold as many items as the list.
C3_CapAndPartition ==
    f_pc = "done" =>
        /\ Len(result.all_news) <= 20
        /\ Len(result.en_news) + Len(result.zh_news) = Len(result.all_news)

\* the cap cut items off, and both partitions hold some of those kept
C3_Witness ==
    /\ f_pc = "done"
    /\ Len(result.all_news) = 20
    /\ Len(all_news) > 20
    /\ result.en_news # <<>>
    /\ result.zh_news # <<>>

---------------------------------------------------------------------------
(* C10 *)

\* C10: aggregation never raises, whatever the adapters' calls return.
C10_FetchNeverRaises == f_pc # "raised"

---------------------------------------------------------------------------
(* The response parsing on every short response text *)

MaxText == 5

InitParse ==
    /\ p_pc = "call"
    /\ response_text \in SeqsUpTo(Tokens, MaxText)
    /\ p_result = NotParsed
    /\ now = Now0
    /\ DedupIdle
    /\ AdapterIdle
    /\ FetchIdle
    /\ EnrichIdle
    /\ DigestIdle
    /\ StoreIdle

ParseResponse ==
    /\ p_pc = "call"
    /\ p_result' = parse_response(response_text)
    /\ p_pc' = "done"
    /\ UNCHANGED <<response_text, now, dedupVars, adapterVars, fetchVars, enrichVars, digestVars,
                   storeVars>>

NextParse == ParseResponse

SpecParse == InitParse /\ [][NextParse]_vars

---------------------------------------------------------------------------
(* C9 *)

\* a text that parses to a JSON object
IsObject(text) == JsonLoads(text) \in {"object", "empty"}

\* strategy 1: the raw text parses
DirectParses(text) == IsObject(text)

\* strategy 2: the text holds a fenced block whose contents parse
FencedParses(text) == HasFencedBlock(text) /\ IsObject(FencedContents(text))

\* strategy 3: the span from the first "{" to the last "}" parses
BraceSpanParses(text) ==
    /\ PositionsOf(text, "{") # {}
    /\ PositionsOf(text, "}") # {}
    /\ MinOf(PositionsOf(text, "{")) < MaxOf(PositionsOf(text, "}"))
    /\ IsObject(SubSeq(text, MinOf(PositionsOf(text, "{")),
                       MaxOf(PositionsOf(text, "}"))))

\* C9: the parsing tries the raw text, then the contents of a fenced block,
\* then the span from the first "{" to the last "}", each falling through to
\* the next on failure; the pass fails only if all three fail.
C9_ParseChainFallsThrough ==
    p_pc = "done" =>
        ( p_result = "failed" <=>
            /\ ~DirectParses(response_text)
            /\ ~FencedParses(response_text)
            /\ ~BraceSpanParses(response_text) )

---------------------------------------------------------------------------
(* enhance_news_data on every small dataset and collaborator reply *)

MaxItems == 2

MaxResults == 2

\* a summary longer than the 100 characters the fallback keeps
LongSummary == Str(Repeat("s", AI_SUMMARY_LEN + 1))

\* item i of a dataset: titles differ from item to item, as after dedup
NewsItems(i) ==
    { [ title |-> Str(<<"t", Digit(i)>>), link |-> i, source |-> "feed",
        published |-> DateOf(Naive(Now0)), summary |-> sm, lang |-> lang ] :
        sm \in {NoText, LongSummary}, lang \in {"en", "zh"} }

\* the flat lists of the datasets: item i is one of NewsItems(i)
NewsLists ==
    UNION { { list \in [1..n -> UNION { NewsItems(i) : i \in 1..n }] :
                \A i \in 1..n : list[i] \in NewsItems(i) } : n \in 0..MaxItems }

Enhanced == [title_zh |-> Str(<<"z", "h">>), ai_summary |-> Str(<<"s", "u", "m">>)]

ResultIndexes == {NoIdx, StrIdx} \cup { IntIdx(n) : n \in (0 - MaxItems - 1)..MaxItems }

\* the entries a response may carry: with both fields or with neither, or
\* something that is no object
ResultEntries ==
    { [dict |-> TRUE, index |-> ix, title_zh |-> Enhanced.title_zh,
       ai_summary |-> Enhanced.ai_summary] : ix \in ResultIndexes }
    \cup { [dict |-> TRUE, index |-> ix] : ix \in ResultIndexes }
    \cup { [dict |-> FALSE, index |-> NoIdx] }

\* response texts: plain JSON, fenced JSON, JSON inside prose, an object
\* without results, a fenced block of prose before the JSON, prose
ReplyTexts ==
    { <<"{", "k", "}">>, <<"F", "j", "{", "k", "}", "F">>, <<"w", "{", "k", "}">>,
      <<"{", "}">>, <<"F", "w", "F", "{", "k", "}">>, <<"w">> }

Replies ==
    { [kind |-> "client_error", text |-> <<>>, results |-> <<>>],
      [kind |-> "request_error", text |-> <<>>, results |-> <<>>] }
    \cup [kind : {"text"}, text : ReplyTexts, results : SeqsUpTo(ResultEntries, MaxResults)]

InitEnrich ==
    /\ e_pc = "call"
    /\ \E list \in NewsLists : news_data = dataset(list, Now0)
    /\ e_aliased \in BOOLEAN
    /\ e_before = news_data
    /\ e_reply = NoReply
    /\ now = Now0
    /\ DedupIdle
    /\ AdapterIdle
    /\ FetchIdle
    /\ ParseIdle
    /\ DigestIdle
    /\ StoreIdle

\* enhance_news_data(news_data), the collaborator answering with reply
Enhance ==
    /\ e_pc = "call"
    /\ \E reply \in Replies :
          /\ e_reply' = reply
          /\ e_pc' = enhance_news_data(news_data, reply, e_aliased).pc
          /\ news_data' = enhance_news_data(news_data, reply, e_aliased).data
    /\ UNCHANGED <<e_aliased, e_before, now, dedupVars, adapterVars, fetchVars, parseVars, digestVars,
                   storeVars>>

NextEnrich == Enhance

SpecEnrich == InitEnrich /\ [][NextEnrich]_vars

---------------------------------------------------------------------------
(* C4 *)

\* C4: after enhance_news_data returns, on the success path and on the
\* failure path, with shared or with separate containers, each language
\* partition equals the flat list filtered by that language, field for field.
C4_PartitionsMirrorFlatList ==
    e_pc = "returned" =>
        /\ news_data.en_news = SelectSeq(news_data.all_news, LAMBDA n : n.lang = "en")
        /\ news_data.zh_news = SelectSeq(news_data.all_news, LAMBDA n : n.lang = "zh")

---------------------------------------------------------------------------
(* C5 *)

\* the collaborator call failed entirely: no client, no completion, or a
\* completion that does not parse
FailedEntirely(reply) ==
    \/ reply.kind \in {"client_error", "request_error"}
    \/ reply.kind = "text" /\ parse_response(reply.text) = "failed"

\* C5: if the collaborator call fails entirely, enhance_news_data still
\* returns and every item has a non-empty titleTranslated and a defined
\* aiSummary.
C5_FallbackTotality ==
    (e_pc # "call" /\ FailedEntirely(e_reply)) =>
        /\ e_pc = "returned"
        /\ \A i \in 1..Len(news_data.all_news) :
              /\ "title_zh" \in DOMAIN news_data.all_news[i]
              /\ news_data.all_news[i].title_zh.v # <<>>
              /\ "ai_summary" \in DOMAIN news_data.all_news[i]

---------------------------------------------------------------------------
(* C8 *)

\* the response was merged: the call returned by the success path
Merged(reply, list) ==
    /\ reply.kind = "text"
    /\ parse_response(reply.text) # "failed"
    /\ ~merge_loop(enhancements_of(reply), 1, list).raised

\* the positions 0..len-1 the entries of the response name
NamedIndexes(reply, len) ==
    { n \in 0..(len - 1) :
        \E r \in 1..Len(enhancements_of(reply)) :
            enhancements_of(reply)[r].index = IntIdx(n) }

\* the entry of a partition for the item of that title
PartitionEntries(data, news) ==
    { e \in {data.en_news[j] : j \in 1..Len(data.en_news)}
            \cup {data.zh_news[j] : j \in 1..Len(data.zh_news)} :
        e.title = news.title }

\* C8: a merged response changes only the items at the indexes it names; an
\* index outside 0..len-1 changes nothing, and an item no entry names keeps
\* its field values in the flat list and in its partition.
C8_MergeStrictlyByIndex ==
    (e_pc = "returned" /\ Merged(e_reply, e_before.all_news)) =>
        \A i \in 1..Len(e_before.all_news) :
            (i - 1) \notin NamedIndexes(e_reply, Len(e_before.all_news)) =>
                /\ news_data.all_news[i] = e_before.all_news[i]
                /\ PartitionEntries(news_data, e_before.all_news[i])
                     = PartitionEntries(e_before, e_before.all_news[i])

---------------------------------------------------------------------------
(* generate_summary on every small dataset and collaborator reply *)

MaxLines == 2

DigestReplies ==
    { [kind |-> k, text |-> <<>>] : k \in {"client_error", "request_error", "no_content"} }
    \cup [kind : {"text"}, text : SeqsUpTo(LineKinds, MaxLines)]

InitDigest ==
    /\ g_pc = "call"
    /\ \E list \in NewsLists : g_news_data = dataset(list, Now0)
    /\ g_reply = NoDigestReply
    /\ digest = NoDigest
    /\ now = Now0
    /\ DedupIdle
    /\ AdapterIdle
    /\ FetchIdle
    /\ ParseIdle
    /\ EnrichIdle
    /\ StoreIdle

\* generate_summary(g_news_data), the collaborator answering with reply
GenerateSummary ==
    /\ g_pc = "call"
    /\ \E reply \in DigestReplies :
          /\ g_reply' = reply
          /\ g_pc' = generate_summary(g_news_data, reply, now).pc
          /\ digest' = generate_summary(g_news_data, reply, now).digest
    /\ UNCHANGED <<g_news_data, now, dedupVars, adapterVars, fetchVars, parseVars,
                   enrichVars, storeVars>>

NextDigest == GenerateSummary

SpecDigest == InitDigest /\ [][NextDigest]_vars

---------------------------------------------------------------------------
(* C6 *)

DigestKeys == {"week", "generated_at", "summary", "summary_raw", "model", "news_count"}

\* C6: generate_summary never raises, whatever the dataset and whatever the
\* collaborator does; it returns a digest with week, generated_at, summary,
\* summary_raw, model and news_count (0 for an empty dataset), and with the
\* error marker exactly when the fallback path was taken.
C6_DigestAlwaysReturns ==
    /\ g_pc # "raised"
    /\ g_pc = "returned" =>
          /\ DigestKeys \subseteq DOMAIN digest
          /\ digest.news_count = Len(g_news_data.all_news)
          /\ ("error" \in DOMAIN digest) <=> (g_reply.kind # "text")

---------------------------------------------------------------------------
(* The dataset files under data/.  json.dump followed by json.load gives
   back a dataset equal to the one written, but whose en_news / zh_news hold
   copies of the items of all_news, not the same objects.  The digest files
   (summary_<week>.json, latest_summary.json) are no part of this state. *)

MaxStoreItems == 1

\* the items the adapters may hand to fetch_all_news in a run at time t
StoreFetched(t) ==
    [ title : {Str(<<"t", "1">>), None},
      link : {1},
      source : {"feed"},
      published : {DateOf(Naive(t))},
      summary : {NoText},
      lang : {"en", "zh"},
      published_ts : {t - 3600, t - 8 * DAY} ]

\* what the collaborator may do during enhance_news_data
StoreReplies ==
    { [kind |-> "client_error", text |-> <<>>, results |-> <<>>],
      [kind |-> "request_error", text |-> <<>>, results |-> <<>>],
      [kind |-> "text", text |-> <<"{", "k", "}">>, results |-> <<>>],
      [kind |-> "text", text |-> <<"{", "k", "}">>,
       results |-> << [dict |-> TRUE, index |-> IntIdx(0),
                       title_zh |-> Enhanced.title_zh,
                       ai_summary |-> Enhanced.ai_summary] >>] }

\* sys.argv[1] if len(sys.argv) > 1 else None
NoWeekArg == 0

InitStore ==
    /\ StoreIdle
    /\ now = Now0
    /\ DedupIdle
    /\ AdapterIdle
    /\ FetchIdle
    /\ ParseIdle
    /\ EnrichIdle
    /\ DigestIdle

\* fetch_news.py save_news(news_data), lines 300-319: the week's file and
\* latest.json, both with the dataset
fetch_save_news(files, data) ==
    [ week_files |-> [files.week_files EXCEPT ![data.week] = data],
      latest_file |-> data ]

\* summarize.py save_news(news_data, week), lines 44-52: one file, the
\* week's when a week is given, latest.json otherwise
summarize_save_news(files, data, week) ==
    IF week # NoWeekArg
    THEN [ week_files |-> [files.week_files EXCEPT ![week] = data],
           latest_file |-> files.latest_file ]
    ELSE [ week_files |-> files.week_files,
           latest_file |-> data ]

\* summarize.py load_news(week), lines 30-41: the file read, NoFile when the
\* path does not exist (FileNotFoundError)
load_news(files, week) ==
    IF week # NoWeekArg THEN files.week_files[week] ELSE files.latest_file

Files == [week_files |-> week_files, latest_file |-> latest_file]

\* fetch_news.py __main__ (lines 322-324), main.py lines 25-26:
\* news_data = fetch_all_news(); save_news(news_data), at a time t not before
\* the last run
RunFetch ==
    /\ \E weeks \in 0..MaxWeeks :
          /\ WeekOf(now + weeks * 7 * DAY) \in StoreWeeks
          /\ now' = now + weeks * 7 * DAY
    /\ \E concat \in SeqsUpTo(StoreFetched(now'), MaxStoreItems) :
          IF dedup_raises(concat)
          THEN /\ s_last' = [op |-> "fetch", week |-> WeekOf(now'), outcome |-> "raised"]
               /\ UNCHANGED <<week_files, latest_file>>
          ELSE LET data == dataset(rank(concat, now'), now')
               IN  /\ week_files' = fetch_save_news(Files, data).week_files
                   /\ latest_file' = fetch_save_news(Files, data).latest_file
                   /\ s_last' = [op |-> "fetch", week |-> data.week, outcome |-> "saved"]
    /\ UNCHANGED <<dedupVars, adapterVars, fetchVars, parseVars, enrichVars, digestVars>>

\* summarize.py __main__, lines 319-331, run with the argument week on the
\* files as they are, the collaborator answering with reply:
\* news_data = load_news(week); news_data = enhance_news_data(news_data);
\* save_news(news_data, week).  What follows (generate_summary, save_summary)
\* does not touch the dataset files.
summarize_main(files, week, reply) ==
    LET done == enhance_news_data(load_news(files, week), reply, FALSE)
    IN  IF done.pc = "raised"
        THEN [outcome |-> "raised", files |-> files]
        ELSE [outcome |-> "saved",
              files |-> summarize_save_news(files, done.data, week)]

\* python summarize.py
RunSummarizeLatest ==
    /\ load_news(Files, NoWeekArg) # NoFile
    /\ \E reply \in StoreReplies :
          /\ week_files' = summarize_main(Files, NoWeekArg, reply).files.week_files
          /\ latest_file' = summarize_main(Files, NoWeekArg, reply).files.latest_file
          /\ s_last' = [op |-> "summarize", week |-> NoWeekArg,
                        outcome |-> summarize_main(Files, NoWeekArg, reply).outcome]
    /\ UNCHANGED <<now, dedupVars, adapterVars, fetchVars, parseVars, enrichVars, digestVars>>

\* python summarize.py <week>
RunSummarizeWeek ==
    /\ \E week \in StoreWeeks, reply \in StoreReplies :
          /\ load_news(Files, week) # NoFile
          /\ week_files' = summarize_main(Files, week, reply).files.week_files
          /\ latest_file' = summarize_main(Files, week, reply).files.latest_file
          /\ s_last' = [op |-> "summarize", week |-> week,
                        outcome |-> summarize_main(Files, week, reply).outcome]
    /\ UNCHANGED <<now, dedupVars, adapterVars, fetchVars, parseVars, enrichVars, digestVars>>

NextStore == RunFetch \/ RunSummarizeLatest \/ RunSummarizeWeek

SpecStore == InitStore /\ [][NextStore]_vars

---------------------------------------------------------------------------
(* C12 *)

\* the weeks that have a dataset file
WeeksOnDisk == { w \in StoreWeeks : week_files[w] # NoFile }

\* the most recent of them
MostRecentWeek == CHOOSE w \in WeeksOnDisk : \A v \in WeeksOnDisk : v <= w

\* C12: after any sequence of runs that write dataset files (fetch followed by
\* save_news, and the summarize entry point's enrich followed by save_news,
\* with or without a week argument), latest.json has the same content as
\* news_<week>.json of the most recent week.
C12_LatestMirrorsRecentWeek ==
    WeeksOnDisk # {} => latest_file = week_files[MostRecentWeek]

=============================================================================
